---------------------------- MODULE Spec2Model ----------------------------
(***************************************************************************)
(* The roster index of src/roster_list.c: the contacts hash table, the     *)
(* name -> barejid hash table and the four autocompleters, with one action *)
(* per roster operation.  Every operation is first written as an operator  *)
(* on a roster state record (S), computed as the C function computes it,   *)
(* and the action assigns the variables from that operator's result.       *)
(***************************************************************************)
EXTENDS Bags, FiniteSets, Integers, Sequences, TLC

VARIABLES contacts, name_to_barejid, name_ac, barejid_ac, fulljid_ac,
          groups_ac, cursor, win, inp, pc, last

vars == <<contacts, name_to_barejid, name_ac, barejid_ac, fulljid_ac,
          groups_ac, cursor, win, inp, pc, last>>

(***************************************************************************)
(* Values                                                                  *)
(***************************************************************************)
\* The C NULL pointer (an absent name, contact, resource or date).
NULL == "<NULL>"

\* Barejids the callers pass: two spellings of one address, and another one.
Barejids == {"a@x", "A@x", "b@x"}

\* Names the callers pass: absent, a nickname, and a nickname that is spelled
\* like the barejid of another contact.
NameArgs == {NULL, "Bob", "b@x"}

\* Group lists (GSList of strings), subscription and pending_out passed
\* together to roster_add and roster_update.
AttrArgs ==
    { [groups |-> <<>>, subscription |-> "none", pending_out |-> FALSE],
      [groups |-> <<"g1", "g2">>, subscription |-> "both", pending_out |-> TRUE] }

\* The attributes the actions of Spec pass (the claims range over AttrArgs).
StepAttrs ==
    { [groups |-> <<"g1", "g2">>, subscription |-> "both", pending_out |-> TRUE] }

\* Resources (name, presence) and last-activity dates passed to
\* roster_update_presence.
ResourceNames == {"phone", "desk"}
ResourceArgs == [name : ResourceNames, presence : {"online"}]
MaxDates == 2
DateNames == <<"t1", "t2", "t3", "t4">>
DateTimes == {NULL} \cup {DateNames[i] : i \in 1..MaxDates}

\* The longest input line key_printable is called on.
MaxLine == 3

\* g_utf8_strdown on the strings of the model.
Lower(s) == IF s = "A@x" THEN "a@x" ELSE s

(***************************************************************************)
(* GHashTable with string keys and an exact key comparison.                *)
(***************************************************************************)
EmptyTable == [k \in {} |-> NULL]

\* _key_equals: g_strcmp0(str1, str2) == 0, an exact, case-sensitive match.
_key_equals(key1, key2) == key1 = key2

HasKey(h, k) == \E x \in DOMAIN h : _key_equals(x, k)

\* g_hash_table_lookup: the value, or NULL.
Lookup(h, k) == IF HasKey(h, k) THEN h[k] ELSE NULL

\* g_hash_table_insert: a new entry, or the value of the equal key replaced.
Insert(h, k, v) == [x \in DOMAIN h \cup {k} |-> IF x = k THEN v ELSE h[x]]

\* g_hash_table_remove.
Remove(h, k) == [x \in {y \in DOMAIN h : ~_key_equals(y, k)} |-> h[x]]


(***************************************************************************)
(* Autocomplete (tools/autocomplete.c): a collection of strings.  It is    *)
(* kept as a bag so that "held once" is something add has to establish.    *)
(***************************************************************************)
\* autocomplete_new: no items.
autocomplete_new == EmptyBag

\* autocomplete_clear: every item dropped.
autocomplete_clear(ac) == ac (-) ac

\* autocomplete_add: inserts item unless an equal item is already held.
autocomplete_add(ac, item) ==
    IF BagIn(item, ac) THEN ac ELSE ac (+) SetToBag({item})

\* autocomplete_remove: deletes the item that matches exactly, if any.
autocomplete_remove(ac, item) ==
    IF BagIn(item, ac) THEN ac (-) SetToBag({item}) ELSE ac

\* autocomplete_reset: the search cursor is dropped, the items are kept.
autocomplete_reset(ac) == [item \in DOMAIN ac |-> ac[item]]

\* The search cursor of an autocompleter: the string of the search under
\* way (NULL if none) and the item found last (<<>> if none, else <<item>>).
\* autocomplete_new leaves no search under way.
NoCursor == [search_str |-> NULL, last_found |-> <<>>]

\* What autocomplete_reset does to the cursor: both parts are dropped.
ResetCursor(cur) == [cur EXCEPT !.search_str = NULL, !.last_found = <<>>]

\* The strings an autocompleter holds.
Items(ac) == BagToSet(ac)

\* The strings of the model in byte order (strcmp), the order in which an
\* autocompleter keeps its items; a full jid is ordered by its barejid,
\* then by its resource.
ByteOrder ==
    <<"A@x", "Amy", "Bob", "Zed", "a@x", "b@x", "desk", "g1", "g2", "g3",
      "phone">>

StrRank(str) == CHOOSE i \in 1..Len(ByteOrder) : ByteOrder[i] = str
JidRank(jid) == StrRank(jid[1]) * (Len(ByteOrder) + 1) + StrRank(jid[3])

\* The rank of an item and the string it starts with; jids tells that the
\* items are full jids.
ItemRank(item, jids) == IF jids THEN JidRank(item) ELSE StrRank(item)
ItemText(item, jids) == IF jids THEN item[1] ELSE item

\* The first character of a string of the model.
Initial(str) ==
    CASE str \in {"A@x", "Amy"} -> "A"
      [] str = "Bob" -> "B"
      [] str = "Zed" -> "Z"
      [] str = "a@x" -> "a"
      [] str = "b@x" -> "b"
      [] str = "desk" -> "d"
      [] str \in {"g1", "g2", "g3"} -> "g"
      [] str = "phone" -> "p"

\* strncmp(item, search_str, strlen(search_str)) == 0 for a search string
\* that is empty or one character long.
HasPrefix(str, search_str) == search_str = "" \/ Initial(str) = search_str

\* The items of ac that start with search_str, and the first of a set of
\* items in the order of the autocompleter.
MatchesIn(ac, search_str, jids) ==
    {item \in BagToSet(ac) : HasPrefix(ItemText(item, jids), search_str)}

FirstOf(items, jids) ==
    CHOOSE item \in items :
        \A other \in items : ItemRank(item, jids) <= ItemRank(other, jids)

\* autocomplete_complete(ac, search_str): the completion returned (<<>> for
\* NULL, else <<item>>) and the cursor left.  The first attempt keeps the
\* search string and returns the first item that starts with it; a later
\* attempt goes on after the item found last with the string kept, wraps
\* round to the first match, and resets the cursor when nothing matches.
autocomplete_complete(ac, cur, search_str, jids) ==
    IF BagToSet(ac) = {}
    THEN [found |-> <<>>, cur |-> cur]
    ELSE IF cur.last_found = <<>>
    THEN LET m == MatchesIn(ac, search_str, jids)
             found == IF m = {} THEN <<>> ELSE <<FirstOf(m, jids)>>
         IN  [found |-> found,
              cur |-> [search_str |-> search_str, last_found |-> found]]
    ELSE LET m == MatchesIn(ac, cur.search_str, jids)
             after == {item \in m : ItemRank(item, jids)
                                         > ItemRank(cur.last_found[1], jids)}
         IN  IF after /= {}
             THEN [found |-> <<FirstOf(after, jids)>>,
                   cur |-> [cur EXCEPT
                               !.last_found = <<FirstOf(after, jids)>>]]
             ELSE IF m /= {}
             THEN [found |-> <<FirstOf(m, jids)>>,
                   cur |-> [cur EXCEPT !.last_found = <<FirstOf(m, jids)>>]]
             ELSE [found |-> <<>>, cur |-> ResetCursor(cur)]

(***************************************************************************)
(* Contact (contact.c) and Jid (jid.c)                                     *)
(***************************************************************************)
\* p_contact_new(barejid, name, groups, subscription, NULL, pending_out):
\* no last activity and no available resource yet.
p_contact_new(barejid, name, groups, subscription, pending_out) ==
    [ barejid       |-> barejid,
      name          |-> name,
      groups        |-> groups,
      subscription  |-> subscription,
      pending_out   |-> pending_out,
      last_activity |-> NULL,
      resources     |-> EmptyTable ]

\* p_contact_set_presence: the resource is stored under its name.
p_contact_set_presence(contact, resource) ==
    [contact EXCEPT !.resources = Insert(@, resource.name, resource.presence)]

\* p_contact_remove_resource: returns TRUE when the contact had the
\* resource, and drops it.
p_contact_has_resource(contact, resource) == HasKey(contact.resources, resource)

p_contact_remove_resource(contact, resource) ==
    [contact EXCEPT !.resources = Remove(@, resource)]

\* p_contact_get_available_resources: the names of the resources held.
p_contact_get_available_resources(contact) == DOMAIN contact.resources

\* jid_create_from_bare_and_resource(barejid, resource)->fulljid, and the
\* string roster_remove builds: barejid "/" resource.
Fulljid(barejid, resource) == <<barejid, "/", resource>>

(***************************************************************************)
(* The roster state as one record, and the outcome of an operation: the    *)
(* state it leaves, the value it returns and how control leaves it.        *)
(***************************************************************************)
\* roster_init.
S0 ==
    [ contacts        |-> EmptyTable,
      name_to_barejid |-> EmptyTable,
      name_ac         |-> autocomplete_new,
      barejid_ac      |-> autocomplete_new,
      fulljid_ac      |-> autocomplete_new,
      groups_ac       |-> autocomplete_new,
      cursor          |-> [ name_ac    |-> NoCursor,
                            barejid_ac |-> NoCursor,
                            fulljid_ac |-> NoCursor,
                            groups_ac  |-> NoCursor ] ]

St ==
    [ contacts        |-> contacts,
      name_to_barejid |-> name_to_barejid,
      name_ac         |-> name_ac,
      barejid_ac      |-> barejid_ac,
      fulljid_ac      |-> fulljid_ac,
      groups_ac       |-> groups_ac,
      cursor          |-> cursor ]

\* ret: "TRUE", "FALSE", or "void" (no value returned).
\* pc: "run", "abort" (a failed assert) or "segv" (a NULL dereference).
Outcome(S, ret, ctl) == [st |-> S, ret |-> ret, pc |-> ctl]

(***************************************************************************)
(* roster_list.c                                                           *)
(***************************************************************************)
\* roster_get_contact: the barejid is lower-cased, then looked up.  The
\* contact is denoted by the key it is stored under; NULL when not found.
roster_get_contact(S, barejid) ==
    LET barejidlower == Lower(barejid)
    IN  IF HasKey(S.contacts, barejidlower) THEN barejidlower ELSE NULL

\* roster_barejid_from_name.
roster_barejid_from_name(S, name) ==
    IF name /= NULL THEN Lookup(S.name_to_barejid, name) ELSE NULL

\* A slip in _add_name_and_barejid: the table is keyed by the barejid even
\* when a name is given.
AddNameKeyedByBarejid(S, name, barejid) ==
    IF name /= NULL
    THEN [S EXCEPT !.name_ac = autocomplete_add(@, name),
                   !.name_to_barejid = Insert(@, barejid, barejid)]
    ELSE [S EXCEPT !.name_ac = autocomplete_add(@, barejid),
                   !.name_to_barejid = Insert(@, barejid, barejid)]

\* _add_name_and_barejid: registers name, or barejid when there is no name.
_add_name_and_barejid(S, name, barejid) ==
    IF name /= NULL
    THEN [S EXCEPT !.name_ac = autocomplete_add(@, name),
                   !.name_to_barejid = Insert(@, name, barejid)]
    ELSE [S EXCEPT !.name_ac = autocomplete_add(@, barejid),
                   !.name_to_barejid = Insert(@, barejid, barejid)]

\* A slip in _replace_name: the barejid fallback is not retired when a
\* contact without a name gets one.
ReplaceNameKeepsFallback(S, current_name, new_name, barejid) ==
    IF current_name /= NULL
    THEN _add_name_and_barejid(
             [S EXCEPT !.name_ac = autocomplete_remove(@, current_name),
                       !.name_to_barejid = Remove(@, current_name)],
             new_name, barejid)
    ELSE IF new_name /= NULL
    THEN _add_name_and_barejid(
             [S EXCEPT !.name_to_barejid = Remove(@, barejid)],
             new_name, barejid)
    ELSE S

\* _replace_name.
_replace_name(S, current_name, new_name, barejid) ==
    IF current_name /= NULL
    THEN _add_name_and_barejid(
             [S EXCEPT !.name_ac = autocomplete_remove(@, current_name),
                       !.name_to_barejid = Remove(@, current_name)],
             new_name, barejid)
    ELSE IF new_name /= NULL
    THEN _add_name_and_barejid(
             [S EXCEPT !.name_ac = autocomplete_remove(@, barejid),
                       !.name_to_barejid = Remove(@, barejid)],
             new_name, barejid)
    ELSE S

\* The loop "while (groups) autocomplete_add(groups_ac, groups->data)".
RECURSIVE AddGroups(_, _)
AddGroups(ac, groups) ==
    IF groups = <<>> THEN ac
    ELSE AddGroups(autocomplete_add(ac, Head(groups)), Tail(groups))

\* roster_add.
roster_add(S, barejid, name, groups, subscription, pending_out) ==
    IF roster_get_contact(S, barejid) /= NULL
    THEN Outcome(S, "FALSE", "run")
    ELSE LET contact == p_contact_new(barejid, name, groups, subscription,
                                      pending_out)
             S1 == [S EXCEPT !.groups_ac = AddGroups(@, groups)]
             S2 == [S1 EXCEPT !.contacts = Insert(@, barejid, contact),
                              !.barejid_ac = autocomplete_add(@, barejid)]
         IN  Outcome(_add_name_and_barejid(S2, name, barejid), "TRUE", "run")

\* A slip in roster_update: the name is read after p_contact_set_name, so
\* current_name is the new name.
UpdateReadsNameLate(S, barejid, name, groups, subscription, pending_out) ==
    LET contact == roster_get_contact(S, barejid)
    IN  IF contact = NULL
        THEN Outcome(S, "void", "abort")
        ELSE LET S1 == [S EXCEPT !.contacts[contact].subscription = subscription,
                                 !.contacts[contact].pending_out = pending_out,
                                 !.contacts[contact].name = name,
                                 !.contacts[contact].groups = groups]
                 current_name == S1.contacts[contact].name
                 S2 == _replace_name(S1, current_name, name, barejid)
             IN  Outcome([S2 EXCEPT !.groups_ac = AddGroups(@, groups)],
                         "void", "run")

\* A slip in roster_update: the pending-out flag is left as it was.
UpdateKeepsPendingOut(S, barejid, name, groups, subscription, pending_out) ==
    LET contact == roster_get_contact(S, barejid)
    IN  IF contact = NULL
        THEN Outcome(S, "void", "abort")
        ELSE LET current_name == S.contacts[contact].name
                 S1 == [S EXCEPT !.contacts[contact].subscription = subscription,
                                 !.contacts[contact].name = name,
                                 !.contacts[contact].groups = groups]
                 S2 == _replace_name(S1, current_name, name, barejid)
             IN  Outcome([S2 EXCEPT !.groups_ac = AddGroups(@, groups)],
                         "void", "run")

\* A slip in roster_update: the assert is missing, and the name passed is
\* registered even though no contact was found.
UpdateWithoutAssert(S, barejid, name, groups, subscription, pending_out) ==
    LET contact == roster_get_contact(S, barejid)
    IN  IF contact = NULL
        THEN Outcome(_add_name_and_barejid(
                         [S EXCEPT !.groups_ac = AddGroups(@, groups)],
                         name, barejid),
                     "void", "abort")
        ELSE LET current_name == S.contacts[contact].name
                 S1 == [S EXCEPT !.contacts[contact].subscription = subscription,
                                 !.contacts[contact].pending_out = pending_out,
                                 !.contacts[contact].name = name,
                                 !.contacts[contact].groups = groups]
                 S2 == _replace_name(S1, current_name, name, barejid)
             IN  Outcome([S2 EXCEPT !.groups_ac = AddGroups(@, groups)],
                         "void", "run")

\* roster_update: asserts that the contact exists.
roster_update(S, barejid, name, groups, subscription, pending_out) ==
    LET contact == roster_get_contact(S, barejid)
    IN  IF contact = NULL
        THEN Outcome(S, "void", "abort")
        ELSE LET current_name == S.contacts[contact].name
                 S1 == [S EXCEPT !.contacts[contact].subscription = subscription,
                                 !.contacts[contact].pending_out = pending_out,
                                 !.contacts[contact].name = name,
                                 !.contacts[contact].groups = groups]
                 S2 == _replace_name(S1, current_name, name, barejid)
             IN  Outcome([S2 EXCEPT !.groups_ac = AddGroups(@, groups)],
                         "void", "run")

\* roster_change_name: contact is a contact of the table (its key) or NULL.
roster_change_name(S, contact, new_name) ==
    IF contact = NULL
    THEN Outcome(S, "void", "abort")
    ELSE LET current_name == S.contacts[contact].name
             barejid == S.contacts[contact].barejid
             S1 == [S EXCEPT !.contacts[contact].name = new_name]
         IN  Outcome(_replace_name(S1, current_name, new_name, barejid),
                     "void", "run")

\* The loop of roster_remove over the contact's available resources.
RECURSIVE RemoveFulljids(_, _, _)
RemoveFulljids(ac, barejid, resources) ==
    IF resources = {} THEN ac
    ELSE LET r == CHOOSE x \in resources : TRUE
         IN  RemoveFulljids(autocomplete_remove(ac, Fulljid(barejid, r)),
                            barejid, resources \ {r})

\* A slip in roster_remove: the contact is deleted before its resources are
\* read, so the lookup that follows finds nothing.
RemoveDeletesContactFirst(S, name, barejid, ub) ==
    LET S1 == [S EXCEPT !.barejid_ac = autocomplete_remove(@, barejid),
                        !.name_ac = autocomplete_remove(@, name)]
    IN  IF name = NULL /\ ub = "segv"
        THEN Outcome(S1, "void", "segv")
        ELSE LET S2 == [S1 EXCEPT !.name_to_barejid = Remove(@, name),
                                  !.contacts = Remove(@, barejid)]
                 contact == roster_get_contact(S2, barejid)
                 S3 == IF contact /= NULL
                       THEN [S2 EXCEPT !.fulljid_ac =
                                RemoveFulljids(@, barejid,
                                    p_contact_get_available_resources(
                                        S2.contacts[contact]))]
                       ELSE S2
             IN  Outcome(S3, "void", "run")

\* A slip in roster_remove: the groups of the removed contact are pruned
\* from the groups autocompleter.
RECURSIVE RemoveGroups(_, _)
RemoveGroups(ac, groups) ==
    IF groups = <<>> THEN ac
    ELSE RemoveGroups(autocomplete_remove(ac, Head(groups)), Tail(groups))

RemovePrunesGroups(S, name, barejid, ub) ==
    LET S1 == [S EXCEPT !.barejid_ac = autocomplete_remove(@, barejid),
                        !.name_ac = autocomplete_remove(@, name)]
    IN  IF name = NULL /\ ub = "segv"
        THEN Outcome(S1, "void", "segv")
        ELSE LET S2 == [S1 EXCEPT !.name_to_barejid = Remove(@, name)]
                 contact == roster_get_contact(S2, barejid)
                 S3 == IF contact /= NULL
                       THEN [S2 EXCEPT !.fulljid_ac =
                                RemoveFulljids(@, barejid,
                                    p_contact_get_available_resources(
                                        S2.contacts[contact])),
                                       !.groups_ac =
                                RemoveGroups(@, S2.contacts[contact].groups)]
                       ELSE S2
             IN  Outcome([S3 EXCEPT !.contacts = Remove(@, barejid)],
                         "void", "run")

\* A slip in roster_remove: the barejid is lower-cased for the barejid
\* autocompleter only.
RemoveLowersBarejid(S, name, barejid, ub) ==
    LET S1 == [S EXCEPT !.barejid_ac = autocomplete_remove(@, Lower(barejid)),
                        !.name_ac = autocomplete_remove(@, name)]
    IN  IF name = NULL /\ ub = "segv"
        THEN Outcome(S1, "void", "segv")
        ELSE LET S2 == [S1 EXCEPT !.name_to_barejid = Remove(@, name)]
                 contact == roster_get_contact(S2, barejid)
                 S3 == IF contact /= NULL
                       THEN [S2 EXCEPT !.fulljid_ac =
                                RemoveFulljids(@, barejid,
                                    p_contact_get_available_resources(
                                        S2.contacts[contact]))]
                       ELSE S2
             IN  Outcome([S3 EXCEPT !.contacts = Remove(@, barejid)],
                         "void", "run")

\* roster_remove.  With name NULL, g_hash_table_remove hashes a NULL key
\* with g_str_hash, which reads through the pointer: ub is what the build
\* does then, "segv" (the process dies there) or "skip" (the removal is a
\* no-op and the function goes on).
UBOutcomes == {"segv", "skip"}

\* The outcomes to tell apart for a call with this name: one unless NULL.
UBOutcomesOf(name) == IF name = NULL THEN UBOutcomes ELSE {"skip"}

roster_remove(S, name, barejid, ub) ==
    LET S1 == [S EXCEPT !.barejid_ac = autocomplete_remove(@, barejid),
                        !.name_ac = autocomplete_remove(@, name)]
    IN  IF name = NULL /\ ub = "segv"
        THEN Outcome(S1, "void", "segv")
        ELSE LET S2 == [S1 EXCEPT !.name_to_barejid = Remove(@, name)]
                 contact == roster_get_contact(S2, barejid)
                 S3 == IF contact /= NULL
                       THEN [S2 EXCEPT !.fulljid_ac =
                                RemoveFulljids(@, barejid,
                                    p_contact_get_available_resources(
                                        S2.contacts[contact]))]
                       ELSE S2
             IN  Outcome([S3 EXCEPT !.contacts = Remove(@, barejid)],
                         "void", "run")

\* A slip in _datetimes_equal: one date absent counts as equal.
DatetimesEqualIfOneAbsent(dt1, dt2) ==
    IF dt1 = NULL /\ dt2 = NULL THEN TRUE
    ELSE IF dt1 = NULL /\ dt2 /= NULL THEN TRUE
    ELSE IF dt1 /= NULL /\ dt2 = NULL THEN TRUE
    ELSE dt1 = dt2

\* _datetimes_equal; g_date_time_equal compares the instants.
_datetimes_equal(dt1, dt2) ==
    IF dt1 = NULL /\ dt2 = NULL THEN TRUE
    ELSE IF dt1 = NULL /\ dt2 /= NULL THEN FALSE
    ELSE IF dt1 /= NULL /\ dt2 = NULL THEN FALSE
    ELSE dt1 = dt2

\* A slip in roster_update_presence: the full jid is registered before the
\* contact is looked up.
UpdatePresenceAddsFirst(S, barejid, resource, last_activity) ==
    LET contact == roster_get_contact(S, barejid)
        S1 == [S EXCEPT !.fulljid_ac = autocomplete_add(@,
                            Fulljid(barejid, resource.name))]
    IN  IF contact = NULL
        THEN Outcome(S1, "FALSE", "run")
        ELSE LET c0 == S.contacts[contact]
                 c1 == IF ~_datetimes_equal(c0.last_activity, last_activity)
                       THEN [c0 EXCEPT !.last_activity = last_activity]
                       ELSE c0
                 c2 == p_contact_set_presence(c1, resource)
             IN  Outcome([S1 EXCEPT !.contacts[contact] = c2], "TRUE", "run")

\* roster_update_presence.
roster_update_presence(S, barejid, resource, last_activity) ==
    LET contact == roster_get_contact(S, barejid)
    IN  IF contact = NULL
        THEN Outcome(S, "FALSE", "run")
        ELSE LET c0 == S.contacts[contact]
                 c1 == IF ~_datetimes_equal(c0.last_activity, last_activity)
                       THEN [c0 EXCEPT !.last_activity = last_activity]
                       ELSE c0
                 c2 == p_contact_set_presence(c1, resource)
             IN  Outcome([S EXCEPT !.contacts[contact] = c2,
                                   !.fulljid_ac = autocomplete_add(@,
                                       Fulljid(barejid, resource.name))],
                         "TRUE", "run")

\* A slip in roster_contact_offline: with no resource given, the whole
\* contact is taken offline and its full jids are dropped.
OfflineNullDropsFulljids(S, barejid, resource) ==
    LET contact == roster_get_contact(S, barejid)
    IN  IF contact = NULL THEN Outcome(S, "FALSE", "run")
        ELSE IF resource = NULL
        THEN Outcome([S EXCEPT !.contacts[contact].resources = EmptyTable,
                               !.fulljid_ac = RemoveFulljids(@, barejid,
                                   p_contact_get_available_resources(
                                       S.contacts[contact]))],
                     "TRUE", "run")
        ELSE IF p_contact_has_resource(S.contacts[contact], resource)
        THEN Outcome([S EXCEPT !.contacts[contact] =
                                   p_contact_remove_resource(@, resource),
                               !.fulljid_ac = autocomplete_remove(@,
                                   Fulljid(barejid, resource))],
                     "TRUE", "run")
        ELSE Outcome(S, "FALSE", "run")

\* roster_contact_offline.
roster_contact_offline(S, barejid, resource) ==
    LET contact == roster_get_contact(S, barejid)
    IN  IF contact = NULL THEN Outcome(S, "FALSE", "run")
        ELSE IF resource = NULL THEN Outcome(S, "TRUE", "run")
        ELSE IF p_contact_has_resource(S.contacts[contact], resource)
        THEN Outcome([S EXCEPT !.contacts[contact] =
                                   p_contact_remove_resource(@, resource),
                               !.fulljid_ac = autocomplete_remove(@,
                                   Fulljid(barejid, resource))],
                     "TRUE", "run")
        ELSE Outcome(S, "FALSE", "run")

\* A slip in roster_reset_search_attempts: the name autocompleter is left
\* out.
ResetSkipsNames(S) ==
    Outcome([S EXCEPT !.barejid_ac = autocomplete_reset(@),
                      !.fulljid_ac = autocomplete_reset(@),
                      !.groups_ac = autocomplete_reset(@),
                      !.cursor.barejid_ac = ResetCursor(@),
                      !.cursor.fulljid_ac = ResetCursor(@),
                      !.cursor.groups_ac = ResetCursor(@)],
            "void", "run")

\* roster_reset_search_attempts: autocomplete_reset on the four
\* autocompleters.
roster_reset_search_attempts(S) ==
    Outcome([S EXCEPT !.name_ac = autocomplete_reset(@),
                      !.barejid_ac = autocomplete_reset(@),
                      !.fulljid_ac = autocomplete_reset(@),
                      !.groups_ac = autocomplete_reset(@),
                      !.cursor.name_ac = ResetCursor(@),
                      !.cursor.barejid_ac = ResetCursor(@),
                      !.cursor.fulljid_ac = ResetCursor(@),
                      !.cursor.groups_ac = ResetCursor(@)],
            "void", "run")

\* The outcome of a completion: the list field holds what was returned.
Completed(S, c) == [st |-> S, ret |-> "list", pc |-> "run", list |-> c.found]

\* roster_contact_autocomplete, roster_fulljid_autocomplete,
\* roster_group_autocomplete, roster_barejid_autocomplete.
roster_contact_autocomplete(S, search_str) ==
    LET c == autocomplete_complete(S.name_ac, S.cursor.name_ac, search_str,
                                   FALSE)
    IN  Completed([S EXCEPT !.cursor.name_ac = c.cur], c)

roster_fulljid_autocomplete(S, search_str) ==
    LET c == autocomplete_complete(S.fulljid_ac, S.cursor.fulljid_ac,
                                   search_str, TRUE)
    IN  Completed([S EXCEPT !.cursor.fulljid_ac = c.cur], c)

roster_group_autocomplete(S, search_str) ==
    LET c == autocomplete_complete(S.groups_ac, S.cursor.groups_ac,
                                   search_str, FALSE)
    IN  Completed([S EXCEPT !.cursor.groups_ac = c.cur], c)

roster_barejid_autocomplete(S, search_str) ==
    LET c == autocomplete_complete(S.barejid_ac, S.cursor.barejid_ac,
                                   search_str, FALSE)
    IN  Completed([S EXCEPT !.cursor.barejid_ac = c.cur], c)

\* autocomplete_clear ends with autocomplete_reset: the four cursors after
\* roster_clear.
ClearCursors(cur) ==
    [ name_ac    |-> ResetCursor(cur.name_ac),
      barejid_ac |-> ResetCursor(cur.barejid_ac),
      fulljid_ac |-> ResetCursor(cur.fulljid_ac),
      groups_ac  |-> ResetCursor(cur.groups_ac) ]

\* A slip in roster_clear: the groups autocompleter is not cleared.
ClearKeepsGroups(S) ==
    Outcome([ contacts        |-> EmptyTable,
              name_to_barejid |-> EmptyTable,
              name_ac         |-> autocomplete_clear(S.name_ac),
              barejid_ac      |-> autocomplete_clear(S.barejid_ac),
              fulljid_ac      |-> autocomplete_clear(S.fulljid_ac),
              groups_ac       |-> S.groups_ac,
              cursor          |-> ClearCursors(S.cursor) ],
            "void", "run")

\* roster_clear: the autocompleters emptied, both tables made anew.
roster_clear(S) ==
    Outcome([ contacts        |-> EmptyTable,
              name_to_barejid |-> EmptyTable,
              name_ac         |-> autocomplete_clear(S.name_ac),
              barejid_ac      |-> autocomplete_clear(S.barejid_ac),
              fulljid_ac      |-> autocomplete_clear(S.fulljid_ac),
              groups_ac       |-> autocomplete_clear(S.groups_ac),
              cursor          |-> ClearCursors(S.cursor) ],
            "void", "run")

(***************************************************************************)
(* The queries that return a sorted list of contacts.                      *)
(***************************************************************************)
\* The strings of the model in the order the locale collates them.
Collation == <<"Amy", "a@x", "A@x", "Bob", "b@x", "Zed">>

\* g_utf8_collate_key: a key whose byte order is the collation order of
\* the strings; the key of a string is its rank.
g_utf8_collate_key(str) ==
    CHOOSE i \in 1..Len(Collation) : Collation[i] = str

\* p_contact_name_collate_key: the key of the name, NULL (0) without a
\* name.  p_contact_barejid_collate_key: the key of the barejid.
p_contact_name_collate_key(contact) ==
    IF contact.name = NULL THEN 0 ELSE g_utf8_collate_key(contact.name)

p_contact_barejid_collate_key(contact) == g_utf8_collate_key(contact.barejid)

\* g_strcmp0 on two collation keys: negative, zero or positive.
g_strcmp0(str1, str2) == str1 - str2

\* A slip in _compare_contacts: the contacts are compared by barejid even
\* when they have names.
CompareByBarejid(a, b) ==
    g_strcmp0(p_contact_barejid_collate_key(a),
              p_contact_barejid_collate_key(b))

\* _compare_contacts.
_compare_contacts(a, b) ==
    LET utf8_str_a == IF p_contact_name_collate_key(a) /= 0
                      THEN p_contact_name_collate_key(a)
                      ELSE p_contact_barejid_collate_key(a)
        utf8_str_b == IF p_contact_name_collate_key(b) /= 0
                      THEN p_contact_name_collate_key(b)
                      ELSE p_contact_barejid_collate_key(b)
    IN  g_strcmp0(utf8_str_a, utf8_str_b)

\* g_slist_insert_sorted(list, data, _compare_contacts): data goes before
\* the first element it does not compare greater than, or at the end.  The
\* list holds contacts of S, each denoted by its key.
RECURSIVE g_slist_insert_sorted(_, _, _)
g_slist_insert_sorted(S, list, data) ==
    IF list = <<>> THEN <<data>>
    ELSE IF _compare_contacts(S.contacts[data], S.contacts[Head(list)]) > 0
    THEN <<Head(list)>> \o g_slist_insert_sorted(S, Tail(list), data)
    ELSE <<data>> \o list

\* The orders in which g_hash_table_iter_next can hand out the entries of a
\* table: any order of its keys.
OrdersOf(keys) ==
    {order \in [1..Cardinality(keys) -> keys] :
        \A i, j \in DOMAIN order : i /= j => order[i] /= order[j]}

IterOrders(h) == OrdersOf(DOMAIN h)

\* The loop of roster_get_contacts over the entries in the order given.
RECURSIVE InsertAll(_, _, _)
InsertAll(S, result, order) ==
    IF order = <<>> THEN result
    ELSE InsertAll(S, g_slist_insert_sorted(S, result, Head(order)),
                   Tail(order))

\* roster_get_contacts: the list returned when the table is iterated in
\* this order.
roster_get_contacts(S, order) == InsertAll(S, <<>>, order)

\* The presences of the model from the most to the least available, and
\* p_contact_presence: "offline" without a resource, else the presence of
\* the most available resource.
Availability == <<"online", "away">>

p_contact_presence(contact) ==
    IF DOMAIN contact.resources = {} THEN "offline"
    ELSE LET held == {contact.resources[r] : r \in DOMAIN contact.resources}
             best == CHOOSE i \in 1..Len(Availability) :
                         /\ Availability[i] \in held
                         /\ \A j \in 1..(i - 1) : Availability[j] \notin held
         IN  Availability[best]

\* The contacts a loop over the table inserts: those of the iteration order
\* that pass the test of the loop body (the keys of keep), in that order.
Selected(order, keep) == SelectSeq(order, LAMBDA k : k \in keep)

\* roster_get_contacts_by_presence.
roster_get_contacts_by_presence(S, order, presence) ==
    InsertAll(S, <<>>,
              Selected(order,
                       {k \in DOMAIN S.contacts :
                            p_contact_presence(S.contacts[k]) = presence}))

\* A slip in roster_get_contacts_online: the presence is compared with
\* "online".
OnlineIsPresenceOnline(S, order) ==
    InsertAll(S, <<>>,
              Selected(order,
                       {k \in DOMAIN S.contacts :
                            p_contact_presence(S.contacts[k]) = "online"}))

\* roster_get_contacts_online.
roster_get_contacts_online(S, order) ==
    InsertAll(S, <<>>,
              Selected(order,
                       {k \in DOMAIN S.contacts :
                            p_contact_presence(S.contacts[k]) /= "offline"}))

\* roster_get_nogroup: the contacts whose group list is NULL (empty).
roster_get_nogroup(S, order) ==
    InsertAll(S, <<>>,
              Selected(order,
                       {k \in DOMAIN S.contacts :
                            S.contacts[k].groups = <<>>}))

\* roster_get_group.
roster_get_group(S, order, group) ==
    InsertAll(S, <<>>,
              Selected(order,
                       {k \in DOMAIN S.contacts :
                            \E i \in 1..Len(S.contacts[k].groups) :
                                S.contacts[k].groups[i] = group}))

\* autocomplete_create_list: the items in the order the autocompleter
\* keeps them.
RECURSIVE autocomplete_create_list(_)
autocomplete_create_list(ac) ==
    IF BagToSet(ac) = {} THEN <<>>
    ELSE LET first == FirstOf(BagToSet(ac), FALSE)
         IN  <<first>> \o autocomplete_create_list(ac (-) SetToBag({first}))

\* roster_get_groups.
roster_get_groups(S) == autocomplete_create_list(S.groups_ac)

\* A slip in roster_has_pending_subscriptions: the flag that is found is
\* cleared.
HasPendingClearsFlag(S, order) ==
    LET pending == Selected(order, {k \in DOMAIN S.contacts :
                                       S.contacts[k].pending_out})
    IN  IF pending /= <<>>
        THEN Outcome([S EXCEPT !.contacts[Head(pending)].pending_out = FALSE],
                     "TRUE", "run")
        ELSE Outcome(S, "FALSE", "run")

\* roster_has_pending_subscriptions: TRUE at the first contact of the
\* iteration whose pending-out flag is set, FALSE after the last.
roster_has_pending_subscriptions(S, order) ==
    LET pending == Selected(order, {k \in DOMAIN S.contacts :
                                       S.contacts[k].pending_out})
    IN  IF pending /= <<>>
        THEN Outcome(S, "TRUE", "run")
        ELSE Outcome(S, "FALSE", "run")

\* A slip in roster_get_msg_display_name: the preference is not consulted.
DisplayNameIgnoresPref(S, barejid, resource, pref) ==
    LET contact == roster_get_contact(S, barejid)
        result == IF contact /= NULL /\ S.contacts[contact].name /= NULL
                  THEN <<S.contacts[contact].name>>
                  ELSE <<barejid>>
    IN  IF resource /= NULL THEN result \o <<"/", resource>> ELSE result

\* prefs_get_boolean(PREF_RESOURCE_MESSAGE) is pref; the string returned is
\* the sequence of the strings appended to result.
roster_get_msg_display_name(S, barejid, resource, pref) ==
    LET contact == roster_get_contact(S, barejid)
        result == IF contact /= NULL
                  THEN IF S.contacts[contact].name /= NULL
                       THEN <<S.contacts[contact].name>>
                       ELSE <<barejid>>
                  ELSE <<barejid>>
    IN  IF resource /= NULL /\ pref
        THEN result \o <<"/", resource>>
        ELSE result

(***************************************************************************)
(* The console (console.c) and the input line (ui/keyhandlers.c)           *)
(***************************************************************************)
\* The window state console.c reads and writes: the type of the window
\* wins_get_current returns, and the numbers of the windows the status bar
\* marks as having new content.  At start the console is current.
WindowTypes == {"WIN_CONSOLE", "WIN_CHAT", "WIN_MUC"}
W0 == [current |-> "WIN_CONSOLE", new |-> {}]

\* status_bar_new(win): the window is marked.
status_bar_new(W, i) == [W EXCEPT !.new = @ \cup {i}]

\* A slip in cons_alert: the console is marked whatever window is current.
AlertAlways(W) == status_bar_new(W, 1)

\* cons_alert.
cons_alert(W) ==
    IF W.current /= "WIN_CONSOLE" THEN status_bar_new(W, 1) ELSE W

\* What a console routine leaves: the roster, the window state, and the
\* lines it printed with cons_show (each line the sequence of the strings
\* it is formatted from).
Shown(S, W, lines) ==
    [st |-> S, win |-> W, ret |-> "void", pc |-> "run", list |-> lines]

\* The loop of cons_show_sent_subs over the list of contacts.
RECURSIVE SentSubsLines(_, _)
SentSubsLines(S, list) ==
    IF list = <<>> THEN <<>>
    ELSE LET contact == S.contacts[Head(list)]
         IN  (IF contact.pending_out
              THEN << <<"  ", contact.barejid>> >>
              ELSE <<>>)
                 \o SentSubsLines(S, Tail(list))

\* A slip in cons_show_sent_subs: the barejid of every contact is printed.
SentSubsPrintsAll(S, W, order) ==
    LET has == roster_has_pending_subscriptions(S, order)
    IN  IF has.ret = "TRUE"
        THEN LET list == roster_get_contacts(has.st, order)
             IN  Shown(has.st, cons_alert(W),
                       << <<"Awaiting subscription responses from:">> >>
                           \o [i \in 1..Len(list) |->
                                  <<"  ", has.st.contacts[list[i]].barejid>>])
        ELSE Shown(has.st, cons_alert(W),
                   << <<"No pending requests sent.">> >>)

\* cons_show_sent_subs.
cons_show_sent_subs(S, W, order) ==
    LET has == roster_has_pending_subscriptions(S, order)
    IN  IF has.ret = "TRUE"
        THEN LET list == roster_get_contacts(has.st, order)
             IN  Shown(has.st, cons_alert(W),
                       << <<"Awaiting subscription responses from:">> >>
                           \o SentSubsLines(has.st, list))
        ELSE Shown(has.st, cons_alert(W),
                   << <<"No pending requests sent.">> >>)

\* The groups of a contact joined with ", ".
RECURSIVE GroupsStr(_)
GroupsStr(groups) ==
    IF Len(groups) = 1 THEN <<groups[1]>>
    ELSE <<groups[1], ", ">> \o GroupsStr(Tail(groups))

\* _show_roster_contacts: one line for each contact of the list, made of the
\* title, " - ", the subscription and, with show_groups, the groups;
\* received holds the barejids presence_sub_request_exists answers for.  The
\* colours are left out.
RECURSIVE _show_roster_contacts(_, _, _, _)
_show_roster_contacts(S, list, show_groups, received) ==
    IF list = <<>> THEN <<>>
    ELSE LET contact == S.contacts[Head(list)]
             title == <<"  ", contact.barejid>>
                          \o (IF contact.name /= NULL
                              THEN <<" (", contact.name, ")">>
                              ELSE <<>>)
             sub == <<contact.subscription>>
                        \o (IF contact.pending_out
                            THEN <<", request sent">> ELSE <<>>)
                        \o (IF contact.barejid \in received
                            THEN <<", request received">> ELSE <<>>)
             groups_str == IF ~show_groups THEN <<>>
                           ELSE IF contact.groups /= <<>>
                                THEN <<" - ">> \o GroupsStr(contact.groups)
                                ELSE <<" ">>
         IN  <<title \o <<" - ">> \o sub \o groups_str>>
                 \o _show_roster_contacts(S, Tail(list), show_groups,
                                          received)

\* cons_show_roster.
cons_show_roster(S, W, list, received) ==
    Shown(S, cons_alert(W),
          << <<"">>, <<"Roster: jid (nick) - subscription - groups">> >>
              \o _show_roster_contacts(S, list, TRUE, received))

\* cons_show_roster_group.
cons_show_roster_group(S, W, group, list, received) ==
    Shown(S, cons_alert(W),
          << <<"">>,
             IF list /= <<>> THEN <<group, ":">>
             ELSE <<"No group named ", group, " exists.">> >>
              \o _show_roster_contacts(S, list, FALSE, received))

\* The characters of the model (wint_t values): an ASCII letter, a CJK
\* ideograph, an emoji outside the basic plane, and a value that is no
\* character; and what uninitialised bytes may hold, a narrow or a wide one.
KeyChars == {"a", "cjk", "emoji", "invalid"}

\* The length of the UTF-8 encoding of a character.
Utf8Bytes(ch) ==
    CASE ch = "a" -> 1
      [] ch = "cjk" -> 3
      [] ch = "emoji" -> 4
      [] ch = "junk" -> 1
      [] ch = "junk_wide" -> 3

\* wcrtomb(bytes, ch, NULL) in a locale whose MB_CUR_MAX is mb_cur_max: the
\* number of bytes written, or -1 for (size_t) -1 when ch has no encoding
\* in the locale.
wcrtomb(ch, mb_cur_max) ==
    IF ch = "invalid" THEN -1
    ELSE IF Utf8Bytes(ch) > mb_cur_max THEN -1
    ELSE Utf8Bytes(ch)

\* g_unichar_iswide.
g_unichar_iswide(uni) == uni \in {"cjk", "emoji", "junk_wide"}

\* utf8_display_len: the columns a string takes, two for a wide character.
RECURSIVE utf8_display_len(_)
utf8_display_len(str) ==
    IF str = <<>> THEN 0
    ELSE (IF g_unichar_iswide(Head(str)) THEN 2 ELSE 1)
             + utf8_display_len(Tail(str))

\* The arguments of key_printable: the line as the sequence of its
\* characters, the cursor as a character position and as a column, the
\* first column shown, and the width of the window; with the MB_CUR_MAX of
\* the locale.  At start the line is empty.
Inp0 ==
    [ line |-> <<>>, line_utf8_pos |-> 0, col |-> 0, pad_start |-> 0,
      wcols |-> 80, mb_cur_max |-> 6 ]

KeyOutcome(I, ctl) == [inp |-> I, pc |-> ctl]

\* The insert branch once bytes holds the string seq: the new line replaces
\* the old one, the cursor moves, pad_start is set from the display length.
InsertBytes(I, seq) ==
    LET utf8_len == Len(I.line)
        start == SubSeq(I.line, 1, I.line_utf8_pos)
        end == SubSeq(I.line, I.line_utf8_pos + 1, utf8_len)
        new_line == start \o seq \o end
        wide == seq /= <<>> /\ g_unichar_iswide(Head(seq))
        display_len == utf8_display_len(new_line)
    IN  [I EXCEPT !.line = new_line,
                  !.line_utf8_pos = @ + 1,
                  !.col = @ + (IF wide THEN 2 ELSE 1),
                  !.pad_start = IF display_len > I.wcols - 2
                                THEN display_len - I.wcols + 1
                                ELSE 0]

\* What the bytes array of the insert branch may hold when nothing was
\* written to it: no character, one, or more.
JunkBytes(ub) ==
    CASE ub = "empty" -> <<>>
      [] ub = "narrow" -> <<"junk">>
      [] ub = "wide" -> <<"junk_wide">>
      [] OTHER -> <<"junk", "junk">>

\* The outcomes of the undefined behaviour of the insert branch.
KeyUBOutcomes == {"segv", "empty", "narrow", "wide", "two"}

\* key_printable.  In the insert branch bytes has MB_CUR_MAX elements and
\* the result of wcrtomb is not tested: with (size_t) -1 the terminator is
\* written outside the array and the array is read as it was found, and
\* with MB_CUR_MAX bytes written the terminator is written one past its
\* end; ub names what then happens.  In the append branch a result that is
\* not below MB_CUR_MAX leaves everything as it was.
key_printable(I, ch, ub) ==
    LET utf8_len == Len(I.line)
        utf8_ch_len == wcrtomb(ch, I.mb_cur_max)
    IN  IF I.line_utf8_pos < utf8_len
        THEN IF utf8_ch_len = -1
             THEN IF ub = "segv" THEN KeyOutcome(I, "segv")
                  ELSE KeyOutcome(InsertBytes(I, JunkBytes(ub)), "run")
             ELSE IF utf8_ch_len >= I.mb_cur_max /\ ub = "segv"
                  THEN KeyOutcome(I, "segv")
                  ELSE KeyOutcome(InsertBytes(I, <<ch>>), "run")
        ELSE IF utf8_ch_len /= -1 /\ utf8_ch_len < I.mb_cur_max
             THEN LET wide == g_unichar_iswide(ch)
                      col == I.col + (IF wide THEN 2 ELSE 1)
                  IN  KeyOutcome(
                          [I EXCEPT !.line = Append(@, ch),
                                    !.line_utf8_pos = @ + 1,
                                    !.col = col,
                                    !.pad_start =
                                        IF col - I.pad_start > I.wcols - 2
                                        THEN @ + (IF wide THEN 2 ELSE 1)
                                        ELSE @],
                          "run")
             ELSE KeyOutcome(I, "run")

(***************************************************************************)
(* The state machine: one action per roster operation.  last records the   *)
(* call that was made last and what it returned.                           *)
(***************************************************************************)
Call(op, barejid, name, resource, prev, ret) ==
    [ op |-> op, barejid |-> barejid, name |-> name, resource |-> resource,
      prev |-> prev, ret |-> ret, list |-> <<>> ]

\* A call of a query that returned a list.
Query(op, list) ==
    [Call(op, NULL, NULL, NULL, NULL, "list") EXCEPT !.list = list]

\* The program runs o, the outcome of the call c.
Do(o, c) ==
    /\ contacts' = o.st.contacts
    /\ name_to_barejid' = o.st.name_to_barejid
    /\ name_ac' = o.st.name_ac
    /\ barejid_ac' = o.st.barejid_ac
    /\ fulljid_ac' = o.st.fulljid_ac
    /\ groups_ac' = o.st.groups_ac
    /\ cursor' = o.st.cursor
    /\ win' = win
    /\ inp' = inp
    /\ pc' = o.pc
    /\ last' = c

\* The program runs o, the outcome of the call c of a console routine:
\* o.win is the window state it leaves and o.list the lines it printed.
DoCons(o, c) ==
    /\ contacts' = o.st.contacts
    /\ name_to_barejid' = o.st.name_to_barejid
    /\ name_ac' = o.st.name_ac
    /\ barejid_ac' = o.st.barejid_ac
    /\ fulljid_ac' = o.st.fulljid_ac
    /\ groups_ac' = o.st.groups_ac
    /\ cursor' = o.st.cursor
    /\ win' = o.win
    /\ inp' = inp
    /\ pc' = o.pc
    /\ last' = [c EXCEPT !.list = o.list]

Init ==
    /\ contacts = S0.contacts
    /\ name_to_barejid = S0.name_to_barejid
    /\ name_ac = S0.name_ac
    /\ barejid_ac = S0.barejid_ac
    /\ fulljid_ac = S0.fulljid_ac
    /\ groups_ac = S0.groups_ac
    /\ cursor = S0.cursor
    /\ win = W0
    /\ inp = Inp0
    /\ pc = "run"
    /\ last = Call("init", NULL, NULL, NULL, NULL, "void")

\* p_contact_name of the contact a barejid is looked up to, NULL if none.
NameOf(S, barejid) ==
    IF roster_get_contact(S, barejid) = NULL THEN NULL
    ELSE S.contacts[roster_get_contact(S, barejid)].name

RosterAdd(barejid, name, a) ==
    /\ pc = "run"
    /\ LET o == roster_add(St, barejid, name, a.groups, a.subscription,
                           a.pending_out)
       IN  Do(o, Call("add", barejid, name, NULL, NULL, o.ret))

\* prev: the name the contact had (current_name in the C code).
RosterUpdate(barejid, name, a) ==
    /\ pc = "run"
    /\ LET o == roster_update(St, barejid, name, a.groups, a.subscription,
                              a.pending_out)
       IN  Do(o, Call("update", barejid, name, NULL, NameOf(St, barejid),
                      o.ret))

\* contact: a contact of the table (the key it is stored under) or NULL.
RosterChangeName(contact, new_name) ==
    /\ pc = "run"
    /\ contact = NULL \/ HasKey(contacts, contact)
    /\ LET o == roster_change_name(St, contact, new_name)
       IN  Do(o, Call("change_name", contact, new_name, NULL,
                      IF contact = NULL THEN NULL ELSE contacts[contact].name,
                      o.ret))

RosterRemove(name, barejid, ub) ==
    /\ pc = "run"
    /\ LET o == roster_remove(St, name, barejid, ub)
       IN  Do(o, Call("remove", barejid, name, NULL, NULL, o.ret))

RosterUpdatePresence(barejid, resource, last_activity) ==
    /\ pc = "run"
    /\ LET o == roster_update_presence(St, barejid, resource, last_activity)
       IN  Do(o, Call("update_presence", barejid, NULL, resource.name, NULL,
                      o.ret))

RosterContactOffline(barejid, resource) ==
    /\ pc = "run"
    /\ LET o == roster_contact_offline(St, barejid, resource)
       IN  Do(o, Call("contact_offline", barejid, NULL, resource, NULL, o.ret))

RosterClear ==
    /\ pc = "run"
    /\ LET o == roster_clear(St)
       IN  Do(o, Call("clear", NULL, NULL, NULL, NULL, o.ret))

RosterResetSearchAttempts ==
    /\ pc = "run"
    /\ LET o == roster_reset_search_attempts(St)
       IN  Do(o, Call("reset_search_attempts", NULL, NULL, NULL, NULL, o.ret))

\* The four completion functions; which names the autocompleter.
RosterAutocomplete(which, search_str) ==
    /\ pc = "run"
    /\ LET o == CASE which = "name_ac" ->
                         roster_contact_autocomplete(St, search_str)
                  [] which = "fulljid_ac" ->
                         roster_fulljid_autocomplete(St, search_str)
                  [] which = "groups_ac" ->
                         roster_group_autocomplete(St, search_str)
                  [] which = "barejid_ac" ->
                         roster_barejid_autocomplete(St, search_str)
       IN  Do(o, [Query("complete", o.list) EXCEPT !.name = which,
                                                   !.prev = search_str])

\* The queries.  Those that walk the table take the order of the iteration.
RosterGetContact(barejid) ==
    /\ pc = "run"
    /\ Do(Outcome(St, roster_get_contact(St, barejid), "run"),
          Call("get_contact", barejid, NULL, NULL, NULL,
               roster_get_contact(St, barejid)))

RosterBarejidFromName(name) ==
    /\ pc = "run"
    /\ Do(Outcome(St, roster_barejid_from_name(St, name), "run"),
          Call("barejid_from_name", NULL, name, NULL, NULL,
               roster_barejid_from_name(St, name)))

RosterGetContactsByPresence(order, presence) ==
    /\ pc = "run"
    /\ order \in IterOrders(contacts)
    /\ Do(Outcome(St, "list", "run"),
          [Query("get_contacts_by_presence",
                 roster_get_contacts_by_presence(St, order, presence))
              EXCEPT !.prev = presence])

RosterGetContactsOnline(order) ==
    /\ pc = "run"
    /\ order \in IterOrders(contacts)
    /\ Do(Outcome(St, "list", "run"),
          Query("get_contacts_online", roster_get_contacts_online(St, order)))

RosterGetNogroup(order) ==
    /\ pc = "run"
    /\ order \in IterOrders(contacts)
    /\ Do(Outcome(St, "list", "run"),
          Query("get_nogroup", roster_get_nogroup(St, order)))

RosterGetGroup(order, group) ==
    /\ pc = "run"
    /\ order \in IterOrders(contacts)
    /\ Do(Outcome(St, "list", "run"),
          [Query("get_group", roster_get_group(St, order, group))
              EXCEPT !.prev = group])

RosterGetGroups ==
    /\ pc = "run"
    /\ Do(Outcome(St, "list", "run"),
          Query("get_groups", roster_get_groups(St)))

RosterHasPendingSubscriptions(order) ==
    /\ pc = "run"
    /\ order \in IterOrders(contacts)
    /\ LET o == roster_has_pending_subscriptions(St, order)
       IN  Do(o, Call("has_pending_subscriptions", NULL, NULL, NULL, NULL,
                      o.ret))

\* roster_get_msg_display_name under either setting of the preference.
RosterGetMsgDisplayName(barejid, resource, pref) ==
    /\ pc = "run"
    /\ Do(Outcome(St, "list", "run"),
          [Query("get_msg_display_name",
                 roster_get_msg_display_name(St, barejid, resource, pref))
              EXCEPT !.barejid = barejid, !.resource = resource,
                     !.prev = IF pref THEN "TRUE" ELSE "FALSE"])

\* Another window becomes the one wins_get_current returns.
WinsSetCurrent(type) ==
    /\ pc = "run"
    /\ DoCons(Shown(St, [win EXCEPT !.current = type], <<>>),
              Call("set_current", NULL, type, NULL, NULL, "void"))

ConsAlert ==
    /\ pc = "run"
    /\ DoCons(Shown(St, cons_alert(win), <<>>),
              Call("cons_alert", NULL, NULL, NULL, win.current, "void"))

ConsShowSentSubs(order) ==
    /\ pc = "run"
    /\ order \in IterOrders(contacts)
    /\ DoCons(cons_show_sent_subs(St, win, order),
              Call("cons_show_sent_subs", NULL, NULL, NULL, win.current,
                   "void"))

\* cons_show_roster with the list of roster_get_contacts, as /roster calls
\* it.
ConsShowRoster(order, received) ==
    /\ pc = "run"
    /\ order \in IterOrders(contacts)
    /\ DoCons(cons_show_roster(St, win, roster_get_contacts(St, order),
                               received),
              Call("cons_show_roster", NULL, NULL, NULL, win.current, "void"))

\* cons_show_roster_group with the list of roster_get_group.
ConsShowRosterGroup(group, order, received) ==
    /\ pc = "run"
    /\ order \in IterOrders(contacts)
    /\ DoCons(cons_show_roster_group(St, win, group,
                                     roster_get_group(St, order, group),
                                     received),
              Call("cons_show_roster_group", NULL, group, NULL, win.current,
                   "void"))

\* key_printable on the input line; last.list holds the arguments it was
\* called with.
KeyPrintable(ch, ub) ==
    /\ pc = "run"
    /\ Len(inp.line) < MaxLine
    /\ LET o == key_printable(inp, ch, ub)
       IN  /\ inp' = o.inp
           /\ pc' = o.pc
           /\ last' = [Call("key_printable", NULL, ch, NULL, ub, "void")
                          EXCEPT !.list = <<inp>>]
           /\ UNCHANGED <<contacts, name_to_barejid, name_ac, barejid_ac,
                          fulljid_ac, groups_ac, cursor, win>>

\* roster_get_contacts, with the table iterated in the order given.
RosterGetContacts(order) ==
    /\ pc = "run"
    /\ order \in IterOrders(contacts)
    /\ Do(Outcome(St, "list", "run"),
          Query("get_contacts", roster_get_contacts(St, order)))

\* The display name of a contact if set, else its barejid.
Identifier(contact) ==
    IF contact.name /= NULL THEN contact.name ELSE contact.barejid

\* The names roster_remove is called with: any name, or a barejid.
RemoveNames == NameArgs \cup Barejids
ContactArgs == Barejids \cup {NULL}

(***************************************************************************)
(* Spec: the operations that maintain the name index, called with every    *)
(* spelling of the barejids and every name.                                *)
(***************************************************************************)
Next ==
    \/ \E b \in Barejids, n \in NameArgs, a \in StepAttrs : RosterAdd(b, n, a)
    \/ \E b \in Barejids, n \in NameArgs, a \in StepAttrs :
           RosterUpdate(b, n, a)
    \/ \E c \in ContactArgs, n \in NameArgs : RosterChangeName(c, n)
    \/ \E n \in RemoveNames, b \in Barejids :
           \E ub \in UBOutcomesOf(n) : RosterRemove(n, b, ub)
    \/ RosterClear

Spec == Init /\ [][Next]_vars

(***************************************************************************)
(* SpecProper: as Spec, but roster_remove is only called for a contact of  *)
(* the table, with that contact's current identifier, and roster_clear is  *)
(* not called.                                                             *)
(***************************************************************************)
RosterRemoveProper(barejid) ==
    /\ HasKey(contacts, barejid)
    /\ RosterRemove(Identifier(contacts[barejid]), barejid, "skip")

NextProper ==
    \/ \E b \in Barejids, n \in NameArgs, a \in StepAttrs : RosterAdd(b, n, a)
    \/ \E b \in Barejids, n \in NameArgs, a \in StepAttrs :
           RosterUpdate(b, n, a)
    \/ \E c \in ContactArgs, n \in NameArgs : RosterChangeName(c, n)
    \/ \E b \in Barejids : RosterRemoveProper(b)

SpecProper == Init /\ [][NextProper]_vars

(***************************************************************************)
(* SpecLower: as SpecProper, with callers that pass lower-case barejids    *)
(* only.                                                                   *)
(***************************************************************************)
LowerBarejids == {b \in Barejids : Lower(b) = b}

NextLower ==
    \/ \E b \in LowerBarejids, n \in NameArgs, a \in StepAttrs :
           RosterAdd(b, n, a)
    \/ \E b \in LowerBarejids, n \in NameArgs, a \in StepAttrs :
           RosterUpdate(b, n, a)
    \/ \E c \in ContactArgs, n \in NameArgs : RosterChangeName(c, n)
    \/ \E b \in LowerBarejids : RosterRemoveProper(b)

SpecLower == Init /\ [][NextLower]_vars

(***************************************************************************)
(* SpecPresence: presence updates and resources going offline, for the     *)
(* two spellings of one barejid.                                           *)
(***************************************************************************)
PresenceBarejids == {"a@x", "A@x"}
PresenceNames == {NULL, "Bob"}

NextPresence ==
    \/ \E b \in PresenceBarejids, n \in PresenceNames, a \in StepAttrs :
           RosterAdd(b, n, a)
    \/ \E b \in PresenceBarejids, r \in ResourceArgs, t \in DateTimes :
           RosterUpdatePresence(b, r, t)
    \/ \E b \in PresenceBarejids, r \in ResourceNames \cup {NULL} :
           RosterContactOffline(b, r)
    \/ \E n \in PresenceNames \cup PresenceBarejids, b \in PresenceBarejids :
           RosterRemove(n, b, "skip")
    \/ RosterClear

SpecPresence == Init /\ [][NextPresence]_vars

(***************************************************************************)
(* SpecAttrs: every mutating operation, with group lists, subscriptions    *)
(* and pending-out flags that differ from call to call, for the two        *)
(* spellings of one barejid and one resource.                              *)
(***************************************************************************)
AttrsResources == [name : {"phone"}, presence : {"online"}]

\* The attributes of AttrArgs and a third set, with a group list that
\* shares a group with another.
MoreAttrs ==
    AttrArgs \cup
    {[groups |-> <<"g2", "g3">>, subscription |-> "to", pending_out |-> FALSE]}

NextAttrs ==
    \/ \E b \in PresenceBarejids, n \in PresenceNames, a \in MoreAttrs :
           RosterAdd(b, n, a)
    \/ \E b \in PresenceBarejids, n \in PresenceNames, a \in MoreAttrs :
           RosterUpdate(b, n, a)
    \/ \E c \in ContactArgs, n \in PresenceNames : RosterChangeName(c, n)
    \/ \E n \in PresenceNames \cup PresenceBarejids, b \in PresenceBarejids :
           RosterRemove(n, b, "skip")
    \/ \E b \in PresenceBarejids, r \in AttrsResources :
           RosterUpdatePresence(b, r, NULL)
    \/ \E b \in PresenceBarejids, r \in {"phone", NULL} :
           RosterContactOffline(b, r)
    \/ RosterResetSearchAttempts
    \/ RosterClear

SpecAttrs == Init /\ [][NextAttrs]_vars

(***************************************************************************)
(* SpecComplete: contacts added and given a resource, completions asked    *)
(* for in the four autocompleters, the search attempts reset and the       *)
(* roster cleared.                                                         *)
(***************************************************************************)
Completers == {"name_ac", "barejid_ac", "fulljid_ac", "groups_ac"}
SearchArgs == {"", "b"}
CompleteBarejids == {"a@x", "b@x"}

NextComplete ==
    \/ \E b \in CompleteBarejids, n \in PresenceNames, a \in StepAttrs :
           RosterAdd(b, n, a)
    \/ \E b \in CompleteBarejids, r \in AttrsResources :
           RosterUpdatePresence(b, r, NULL)
    \/ \E w \in Completers, s \in SearchArgs : RosterAutocomplete(w, s)
    \/ RosterResetSearchAttempts
    \/ RosterClear

SpecComplete == Init /\ [][NextComplete]_vars

(***************************************************************************)
(* SpecQuery: contacts added, renamed and removed under names that sort    *)
(* before, between and after the barejids, and the list queried.           *)
(***************************************************************************)
QueryNames == {NULL, "Amy", "Zed", "b@x"}
AllOrders == UNION {OrdersOf(keys) : keys \in SUBSET Barejids}

NextQuery ==
    \/ \E b \in Barejids, n \in QueryNames, a \in StepAttrs :
           RosterAdd(b, n, a)
    \/ \E c \in ContactArgs, n \in QueryNames : RosterChangeName(c, n)
    \/ \E b \in Barejids : RosterRemoveProper(b)
    \/ \E order \in AllOrders : RosterGetContacts(order)

SpecQuery == Init /\ [][NextQuery]_vars

(***************************************************************************)
(* SpecLists: two contacts with and without a name, groups and a pending   *)
(* request, whose resources come and go under two presences, and every     *)
(* query of the roster.                                                    *)
(***************************************************************************)
ListBarejids == {"a@x", "b@x"}
ListNames == {NULL, "Zed"}
ListResources ==
    { [name |-> "phone", presence |-> "online"],
      [name |-> "desk", presence |-> "away"] }
ListPresences == {"online", "away", "offline", "xa"}
ListGroups == {"g1", "g3"}
ListOrders == UNION {OrdersOf(keys) : keys \in SUBSET ListBarejids}

NextLists ==
    \/ \E b \in ListBarejids, n \in ListNames, a \in AttrArgs :
           RosterAdd(b, n, a)
    \/ \E b \in ListBarejids, r \in ListResources :
           RosterUpdatePresence(b, r, NULL)
    \/ \E b \in ListBarejids, r \in ResourceNames : RosterContactOffline(b, r)
    \/ RosterClear
    \/ \E b \in Barejids : RosterGetContact(b)
    \/ \E n \in QueryNames : RosterBarejidFromName(n)
    \/ \E order \in ListOrders, p \in ListPresences :
           RosterGetContactsByPresence(order, p)
    \/ \E order \in ListOrders : RosterGetContacts(order)
    \/ \E order \in ListOrders : RosterGetContactsOnline(order)
    \/ \E order \in ListOrders : RosterGetNogroup(order)
    \/ \E order \in ListOrders, g \in ListGroups : RosterGetGroup(order, g)
    \/ RosterGetGroups
    \/ \E order \in ListOrders : RosterHasPendingSubscriptions(order)
    \/ \E b \in Barejids, r \in {NULL, "phone"}, pref \in BOOLEAN :
           RosterGetMsgDisplayName(b, r, pref)

SpecLists == Init /\ [][NextLists]_vars

(***************************************************************************)
(* SpecConsole: two contacts with and without a pending request, the       *)
(* current window changing, and the console routines.                      *)
(***************************************************************************)
ReceivedArgs == {{}, {"a@x"}}

NextConsole ==
    \/ \E b \in ListBarejids, n \in ListNames, a \in AttrArgs :
           RosterAdd(b, n, a)
    \/ RosterClear
    \/ \E type \in WindowTypes : WinsSetCurrent(type)
    \/ ConsAlert
    \/ \E order \in ListOrders : ConsShowSentSubs(order)
    \/ \E order \in ListOrders, received \in ReceivedArgs :
           ConsShowRoster(order, received)
    \/ \E g \in ListGroups, order \in ListOrders, received \in ReceivedArgs :
           ConsShowRosterGroup(g, order, received)

SpecConsole == Init /\ [][NextConsole]_vars

(***************************************************************************)
(* SpecKeys: key_printable called again and again, from every line,        *)
(* cursor, first column, window width and locale of KeyInputs.             *)
(***************************************************************************)
InitLines == {<<>>, <<"a">>, <<"cjk">>, <<"a", "cjk">>}
WcolsArgs == {1, 4, 5}
MbCurMaxArgs == {1, 4, 6}

\* The cursor is in the line, col is the column of the cursor, and the
\* first column shown is not after it.
KeyInputs ==
    UNION { UNION { { [ line |-> l, line_utf8_pos |-> p,
                        col |-> utf8_display_len(SubSeq(l, 1, p)),
                        pad_start |-> s, wcols |-> w, mb_cur_max |-> m ] :
                      s \in 0..utf8_display_len(SubSeq(l, 1, p)),
                      w \in WcolsArgs, m \in MbCurMaxArgs } :
                    p \in 0..Len(l) } :
            l \in InitLines }

InitKeys ==
    /\ contacts = S0.contacts
    /\ name_to_barejid = S0.name_to_barejid
    /\ name_ac = S0.name_ac
    /\ barejid_ac = S0.barejid_ac
    /\ fulljid_ac = S0.fulljid_ac
    /\ groups_ac = S0.groups_ac
    /\ cursor = S0.cursor
    /\ win = W0
    /\ inp \in KeyInputs
    /\ pc = "run"
    /\ last = Call("init", NULL, NULL, NULL, NULL, "void")

NextKeys ==
    \E ch \in KeyChars, ub \in KeyUBOutcomes : KeyPrintable(ch, ub)

SpecKeys == InitKeys /\ [][NextKeys]_vars

(***************************************************************************)
(* The claims.  A claim about what one call does is stated for every call  *)
(* the program could make next from the state it is in, through the        *)
(* operator that models the C function.                                    *)
(***************************************************************************)
Strings(seq) == {seq[i] : i \in 1..Len(seq)}

\* C1: roster_add called when no contact is found for barejid returns true,
\* and afterwards contacts holds a contact under barejid, barejidCompletion
\* holds barejid, nameCompletion holds the identifier (name if supplied,
\* else barejid), nameIndex maps the identifier to barejid, and every string
\* of groups is in groupCompletion.
C1_AddRegisters ==
    pc = "run" =>
    \A b \in Barejids, n \in NameArgs, a \in AttrArgs :
        roster_get_contact(St, b) = NULL =>
            LET o  == roster_add(St, b, n, a.groups, a.subscription,
                                 a.pending_out)
                id == IF n /= NULL THEN n ELSE b
            IN  /\ o.ret = "TRUE"
                /\ HasKey(o.st.contacts, b)
                /\ o.st.contacts[b].barejid = b
                /\ BagIn(b, o.st.barejid_ac)
                /\ BagIn(id, o.st.name_ac)
                /\ Lookup(o.st.name_to_barejid, id) = b
                /\ \A g \in Strings(a.groups) : BagIn(g, o.st.groups_ac)

\* C1 witness: a named contact has just been added with groups, and is
\* registered under its name.
C1_Witness ==
    /\ last.op = "add" /\ last.ret = "TRUE" /\ last.name = "Bob"
    /\ HasKey(contacts, last.barejid)
    /\ Lookup(name_to_barejid, "Bob") = last.barejid
    /\ BagIn("g2", groups_ac)

\* C2: for every barejid b, roster_add with b while a contact added under b
\* is still in contacts (not removed, not cleared) returns false and leaves
\* contacts, nameIndex and the four completion indexes as they were,
\* whatever name and groups are passed.  (A key b is in contacts exactly
\* when roster_add(b) succeeded and neither roster_remove(_, b) nor
\* roster_clear ran since.)
C2_SecondAddRejected ==
    pc = "run" =>
    \A b \in Barejids, n \in NameArgs, a \in AttrArgs :
        HasKey(contacts, b) =>
            LET o == roster_add(St, b, n, a.groups, a.subscription,
                                a.pending_out)
            IN  o.ret = "FALSE" /\ o.st = St

\* C3: contacts has at most one entry per barejid under case-insensitive
\* comparison: no two keys differ only in letter case, and a contact added
\* under any casing is found by roster_get_contact under any casing.
C3_KeysCaseInsensitive ==
    /\ \A k1, k2 \in DOMAIN contacts : Lower(k1) = Lower(k2) => k1 = k2
    /\ \A k \in DOMAIN contacts, b \in Barejids :
           Lower(b) = Lower(k) => roster_get_contact(St, b) = k

\* C4: for every contact in contacts there is exactly one nameIndex entry
\* for it; its key is the contact's name if set, else its barejid, and its
\* value is the contact's barejid.
EntriesOf(barejid) ==
    {k \in DOMAIN name_to_barejid : name_to_barejid[k] = barejid}

C4_OneIndexEntryPerContact ==
    \A k \in DOMAIN contacts :
        EntriesOf(contacts[k].barejid) = {Identifier(contacts[k])}

\* C5: the set of strings held by nameCompletion equals the set of keys of
\* nameIndex.
C5_NameAcMatchesIndex == Items(name_ac) = DOMAIN name_to_barejid

\* C5 witness: a rename has retired one identifier and registered another,
\* while another contact is registered too.
C5_Witness ==
    /\ last.op \in {"update", "change_name"} /\ pc = "run"
    /\ last.prev /= NULL /\ last.name /= NULL /\ last.prev /= last.name
    /\ Cardinality(DOMAIN name_to_barejid) >= 2

\* C6: from a state in which b is not present, a successful
\* roster_add(b, name, ...) followed by roster_remove(name, b) gives back
\* the contacts, barejidCompletion and nameCompletion of that state, for
\* every name, an absent one and one another contact uses included.
C6_AddRemoveRestores ==
    pc = "run" =>
    \A b \in Barejids, n \in NameArgs, a \in AttrArgs, ub \in UBOutcomes :
        LET o1 == roster_add(St, b, n, a.groups, a.subscription,
                             a.pending_out)
            o2 == roster_remove(o1.st, n, b, ub)
        IN  (~HasKey(contacts, b) /\ o1.ret = "TRUE") =>
                /\ o2.pc = "run"
                /\ o2.st.contacts = contacts
                /\ o2.st.barejid_ac = barejid_ac
                /\ o2.st.name_ac = name_ac

\* C7: for an existing contact b, roster_update(b, newName, ...) retires
\* the previous identifier and registers the new one (newName if present,
\* else b) pointing at b: a previous name is removed from nameCompletion
\* and nameIndex; with no previous name and a newName, b is removed from
\* them.  (Removal comes first: an identifier that is also the new one is
\* registered afterwards.)  In particular add(b, "Bob"); update(b, absent)
\* leaves "Bob" unregistered and b registered, and update(b, "Bob2") then
\* leaves b unregistered and "Bob2" registered.
Registered(S, id) == BagIn(id, S.name_ac) \/ HasKey(S.name_to_barejid, id)

RegisteredFor(S, id, barejid) ==
    BagIn(id, S.name_ac) /\ Lookup(S.name_to_barejid, id) = barejid

C7_Example ==
    \A b \in Barejids, a \in AttrArgs :
        LET s1 == roster_add(S0, b, "Bob", a.groups, a.subscription,
                             a.pending_out).st
            s2 == roster_update(s1, Lower(b), NULL, a.groups, a.subscription,
                                a.pending_out).st
            s3 == roster_update(s2, Lower(b), "Bob2", a.groups, a.subscription,
                                a.pending_out).st
        IN  b = Lower(b) =>
                /\ ~Registered(s2, "Bob") /\ RegisteredFor(s2, b, b)
                /\ ~Registered(s3, b) /\ RegisteredFor(s3, "Bob2", b)

C8_NoOrphanedNames ==
    /\ \A k \in DOMAIN name_to_barejid :
           /\ HasKey(contacts, name_to_barejid[k])
           /\ Identifier(contacts[name_to_barejid[k]]) = k
    /\ Items(name_ac) \subseteq DOMAIN name_to_barejid

\* C9: roster_update_presence with a barejid for which no contact is found
\* returns false and changes nothing.
C9_UnknownPresenceNoChange ==
    pc = "run" =>
    \A b \in Barejids, r \in ResourceArgs, t \in DateTimes :
        roster_get_contact(St, b) = NULL =>
            LET o == roster_update_presence(St, b, r, t)
            IN  o.ret = "FALSE" /\ o.pc = "run" /\ o.st = St

\* C9 witness: roster_update_presence has just failed for a barejid while
\* another contact, with a resource and a full jid, is in the roster.
C9_Witness ==
    /\ last.op = "update_presence" /\ last.ret = "FALSE"
    /\ roster_get_contact(St, last.barejid) = NULL
    /\ contacts /= EmptyTable
    /\ fulljid_ac /= EmptyBag

FulljidsOfContacts(S) ==
    UNION {{Fulljid(S.contacts[k].barejid, r) :
               r \in p_contact_get_available_resources(S.contacts[k])} :
           k \in DOMAIN S.contacts}

C15_KeepsGroups(o) == Items(groups_ac) \subseteq Items(o.st.groups_ac)

\* Whatever call comes next keeps the groups held, and a successful
\* roster_add or a roster_update registers the groups it is given.
C15_NextCallKeepsGroups ==
    pc = "run" =>
    /\ \A b \in Barejids, n \in NameArgs, a \in MoreAttrs :
           LET add == roster_add(St, b, n, a.groups, a.subscription,
                                 a.pending_out)
               upd == roster_update(St, b, n, a.groups, a.subscription,
                                    a.pending_out)
           IN  /\ C15_KeepsGroups(add) /\ C15_KeepsGroups(upd)
               /\ add.ret = "TRUE" =>
                      Strings(a.groups) \subseteq Items(add.st.groups_ac)
               /\ upd.pc = "run" =>
                      Strings(a.groups) \subseteq Items(upd.st.groups_ac)
    /\ \A c \in DOMAIN contacts, n \in NameArgs :
           C15_KeepsGroups(roster_change_name(St, c, n))
    /\ \A n \in RemoveNames, b \in Barejids :
           \A ub \in UBOutcomesOf(n) :
               C15_KeepsGroups(roster_remove(St, n, b, ub))
    /\ \A b \in Barejids, r \in ResourceArgs, t \in DateTimes :
           C15_KeepsGroups(roster_update_presence(St, b, r, t))
    /\ \A b \in Barejids, r \in ResourceNames \cup {NULL} :
           C15_KeepsGroups(roster_contact_offline(St, b, r))
    /\ C15_KeepsGroups(roster_reset_search_attempts(St))

\* C15: groupCompletion is append-only.  Every group passed to a roster_add
\* that succeeds or to a roster_update is in groupCompletion afterwards, and
\* no roster_add, roster_update, roster_change_name, roster_remove,
\* roster_update_presence, roster_contact_offline or
\* roster_reset_search_attempts takes a string out of it, whatever it is
\* called with; so a group stays after the last contact that had it is
\* removed.
C15_GroupsAppendOnly ==
    /\ []C15_NextCallKeepsGroups
    /\ [][last'.op /= "clear" =>
              Items(groups_ac) \subseteq Items(groups_ac')]_vars

\* C15 witness: the last contact has just been removed and the groups it
\* had at one time or another are all still in groupCompletion.
C15_Witness ==
    /\ last.op = "remove"
    /\ contacts = EmptyTable
    /\ Items(groups_ac) = {"g1", "g2", "g3"}

C16_NextCallAsserts ==
    pc = "run" =>
    /\ \A b \in Barejids, n \in NameArgs, a \in AttrArgs :
           roster_get_contact(St, b) = NULL =>
               LET o == roster_update(St, b, n, a.groups, a.subscription,
                                      a.pending_out)
               IN  o.pc = "abort" /\ o.st = St
    /\ \A n \in NameArgs :
           LET o == roster_change_name(St, NULL, n)
           IN  o.pc = "abort" /\ o.st = St

\* C16: roster_update for a barejid no contact is found for, and
\* roster_change_name for an absent contact, end in the assertion failure
\* before anything is changed: the step that fails the assert leaves
\* contacts, nameIndex and the four completion indexes as they were.
C16_AssertBeforeMutation ==
    /\ []C16_NextCallAsserts
    /\ [][pc' = "abort" =>
              /\ last'.op \in {"update", "change_name"}
              /\ St' = St]_vars

\* C16 witness: roster_update has just failed its assert for a barejid
\* without a contact, with another contact in the roster.
C16_Witness ==
    /\ pc = "abort" /\ last.op = "update"
    /\ roster_get_contact(St, last.barejid) = NULL
    /\ contacts /= EmptyTable

\* C18: roster_change_name(contact, n) and roster_update of that contact
\* (by its barejid) with the name n leave the same nameCompletion and the
\* same nameIndex when started from the same state; and when the contact
\* had no name and n is absent, neither of the two structures changes.
C18_ChangeNameAsUpdate ==
    pc = "run" =>
    \A c \in DOMAIN contacts, n \in NameArgs, a \in AttrArgs :
        LET o1 == roster_change_name(St, c, n)
            o2 == roster_update(St, contacts[c].barejid, n, a.groups,
                                a.subscription, a.pending_out)
        IN  /\ o1.pc = "run" /\ o2.pc = "run"
            /\ o1.st.name_ac = o2.st.name_ac
            /\ o1.st.name_to_barejid = o2.st.name_to_barejid
            /\ (contacts[c].name = NULL /\ n = NULL) =>
                   /\ o1.st.name_ac = name_ac
                   /\ o1.st.name_to_barejid = name_to_barejid

\* The sort key of a contact: the collation key of its name if it has one,
\* else of its barejid.
C19_SortKey(contact) ==
    IF contact.name /= NULL THEN g_utf8_collate_key(contact.name)
    ELSE g_utf8_collate_key(contact.barejid)

\* The list holds every contact of S exactly once, in non-decreasing order
\* of sort keys.
C19_SortedListOf(S, list) ==
    /\ Len(list) = Cardinality(DOMAIN S.contacts)
    /\ {list[i] : i \in DOMAIN list} = DOMAIN S.contacts
    /\ \A i, j \in DOMAIN list :
           i < j => C19_SortKey(S.contacts[list[i]])
                        <= C19_SortKey(S.contacts[list[j]])

\* Contacts b@x named Zed and a@x named Amy come out Amy, Zed.
C19_Example ==
    LET S1 == roster_add(S0, "b@x", "Zed", <<>>, "none", FALSE).st
        S2 == roster_add(S1, "a@x", "Amy", <<>>, "none", FALSE).st
    IN  \A order \in IterOrders(S2.contacts) :
            LET list == roster_get_contacts(S2, order)
            IN  /\ list = <<"a@x", "b@x">>
                /\ <<S2.contacts[list[1]].name, S2.contacts[list[2]].name>>
                       = <<"Amy", "Zed">>

\* C19: roster_get_contacts returns a list that holds every contact of
\* contacts exactly once, in non-decreasing order of the contacts' sort keys
\* (the collation key of the name if the contact has one, else of the
\* barejid), in whatever order the table hands out its entries; contacts
\* named Zed and Amy come out Amy, Zed.
C19_GetContactsSorted ==
    /\ C19_Example
    /\ pc = "run" =>
           \A order \in IterOrders(contacts) :
               C19_SortedListOf(St, roster_get_contacts(St, order))
    /\ last.op = "get_contacts" => C19_SortedListOf(St, last.list)

\* C19 witness: roster_get_contacts has just returned three contacts, one
\* of them without a name, in an order that is not the order of their
\* barejids.
C19_Witness ==
    /\ last.op = "get_contacts"
    /\ Len(last.list) = 3
    /\ \E k \in DOMAIN contacts : contacts[k].name = NULL
    /\ \E i, j \in DOMAIN last.list :
           /\ i < j
           /\ g_utf8_collate_key(contacts[last.list[i]].barejid)
                  > g_utf8_collate_key(contacts[last.list[j]].barejid)

\* roster_clear called next leaves the state roster_init leaves: contacts
\* and nameIndex empty and the four completion indexes without a string.
C20_NextClearIsInit ==
    pc = "run" =>
    LET o == roster_clear(St)
    IN  /\ o.pc = "run"
        /\ o.st.contacts = EmptyTable /\ o.st.name_to_barejid = EmptyTable
        /\ Items(o.st.name_ac) = {} /\ Items(o.st.barejid_ac) = {}
        /\ Items(o.st.fulljid_ac) = {} /\ Items(o.st.groups_ac) = {}
        /\ o.st = S0

\* C20: roster_clear wipes the whole index: afterwards contacts and
\* nameIndex are empty and the four completion indexes hold no string, so
\* the state is the one a fresh roster_init leaves, and any sequence of
\* operations gives the same results and states after it as after
\* roster_init.
C20_ClearWipes ==
    /\ []C20_NextClearIsInit
    /\ [][last'.op = "clear" => St' = S0 /\ pc' = "run"]_vars

\* C20 witness: a roster with a contact, a name, a full jid and groups, which
\* roster_clear takes to the state of roster_init.
C20_Witness ==
    /\ pc = "run"
    /\ contacts /= EmptyTable /\ name_to_barejid /= EmptyTable
    /\ Items(name_ac) /= {} /\ Items(barejid_ac) /= {}
    /\ Items(fulljid_ac) /= {} /\ Items(groups_ac) = {"g1", "g2", "g3"}
    /\ roster_clear(St).st = S0

\* The first item of ac, in the autocompleter's order, that starts with
\* search_str: <<item>>, or <<>> when there is none.
C21_FirstMatch(ac, search_str, jids) ==
    LET m == {item \in Items(ac) :
                  HasPrefix(IF jids THEN item[1] ELSE item, search_str)}
    IN  IF m = {} THEN <<>>
        ELSE <<CHOOSE item \in m :
                   \A other \in m \ {item} :
                       IF jids THEN JidRank(item) < JidRank(other)
                       ELSE StrRank(item) < StrRank(other)>>

\* C21: roster_reset_search_attempts takes no string out of any of the four
\* completion indexes: nameCompletion, barejidCompletion, fulljidCompletion
\* and groupCompletion hold what they held, and contacts and nameIndex are
\* as they were; only the cursors are reset, so the complete call that
\* comes next returns the first match, in each of the four.
C21_ResetKeepsContents ==
    pc = "run" =>
    LET o == roster_reset_search_attempts(St)
    IN  /\ o.pc = "run"
        /\ o.st.name_ac = name_ac /\ o.st.barejid_ac = barejid_ac
        /\ o.st.fulljid_ac = fulljid_ac /\ o.st.groups_ac = groups_ac
        /\ o.st.contacts = contacts
        /\ o.st.name_to_barejid = name_to_barejid
        /\ \A w \in Completers : o.st.cursor[w] = NoCursor
        /\ \A s \in SearchArgs \cup {"a", "g"} :
               /\ roster_contact_autocomplete(o.st, s).list
                      = C21_FirstMatch(name_ac, s, FALSE)
               /\ roster_barejid_autocomplete(o.st, s).list
                      = C21_FirstMatch(barejid_ac, s, FALSE)
               /\ roster_fulljid_autocomplete(o.st, s).list
                      = C21_FirstMatch(fulljid_ac, s, TRUE)
               /\ roster_group_autocomplete(o.st, s).list
                      = C21_FirstMatch(groups_ac, s, FALSE)

\* C21 witness: the four autocompleters hold strings and a search of the
\* names is under way whose next completion is not the first match; after
\* roster_reset_search_attempts it is.
C21_Witness ==
    /\ pc = "run"
    /\ \A w \in Completers : cursor[w].last_found /= <<>>
    /\ Items(fulljid_ac) /= {} /\ Items(groups_ac) /= {}
    /\ Cardinality(Items(name_ac)) = 2
    /\ roster_contact_autocomplete(St, "").list
           /= C21_FirstMatch(name_ac, "", FALSE)
    /\ roster_contact_autocomplete(roster_reset_search_attempts(St).st,
                                   "").list
           = C21_FirstMatch(name_ac, "", FALSE)

\* C23: in every state the program reaches through roster_init, roster_add,
\* roster_update, roster_change_name, roster_remove, roster_update_presence,
\* roster_contact_offline and roster_clear, the strings of barejidCompletion
\* are the keys of contacts, each held once.
C23_BarejidAcIsKeys ==
    pc /= "segv" =>
        /\ Items(barejid_ac) = DOMAIN contacts
        /\ \A b \in DOMAIN contacts : CopiesIn(b, barejid_ac) = 1

\* C23 witness: roster_remove has just taken one of two contacts out; the
\* key and the string that are left are those of the other contact, stored
\* under an upper-case spelling.
C23_Witness ==
    /\ last.op = "remove" /\ pc = "run"
    /\ DOMAIN contacts = {"A@x"}
    /\ Items(barejid_ac) = {"A@x"}
    /\ last.barejid = "a@x"
    /\ fulljid_ac /= EmptyBag

\* The operations that C22 names, as last.op records them.
C22_QueryOps ==
    { "get_contact", "get_contacts_by_presence", "get_contacts",
      "get_contacts_online", "get_nogroup", "get_group", "get_groups",
      "has_pending_subscriptions", "barejid_from_name" }

\* C22: roster_get_contact, roster_get_contacts_by_presence,
\* roster_get_contacts, roster_get_contacts_online, roster_get_nogroup,
\* roster_get_group, roster_get_groups, roster_has_pending_subscriptions and
\* roster_barejid_from_name change neither contacts, nor a field of a
\* contact, nor nameIndex, nor the contents of a completion index, and the
\* program keeps running; roster_get_contact of a barejid that is not known
\* returns NULL, and roster_barejid_from_name of a NULL name or of a name
\* that is not in nameIndex returns NULL.
C22_QueriesPure ==
    /\ [](pc = "run" =>
            /\ \A b \in Barejids :
                   ~HasKey(contacts, Lower(b)) =>
                       roster_get_contact(St, b) = NULL
            /\ \A n \in QueryNames :
                   (n = NULL \/ ~HasKey(name_to_barejid, n)) =>
                       roster_barejid_from_name(St, n) = NULL
            /\ \A order \in IterOrders(contacts) :
                   /\ roster_has_pending_subscriptions(St, order).st = St
                   /\ roster_has_pending_subscriptions(St, order).pc = "run")
    /\ [][last'.op \in C22_QueryOps => (St' = St /\ pc' = "run")]_vars

\* C22 witness: the barejid of a name nobody has was just asked for and
\* NULL came back, in a roster that holds a name, a pending request and a
\* resource.
C22_Witness ==
    /\ last.op = "barejid_from_name" /\ last.name = "Amy"
    /\ last.ret = NULL /\ pc = "run"
    /\ HasKey(name_to_barejid, "Zed")
    /\ \E k \in DOMAIN contacts : contacts[k].pending_out
    /\ fulljid_ac /= EmptyBag

\* The contacts of S whose presence is one of presences.
C24_ContactsWhere(S, presences) ==
    {k \in DOMAIN S.contacts : p_contact_presence(S.contacts[k]) \in presences}

\* The list holds exactly the contacts of the set, each once, in
\* non-decreasing order of the sort keys of roster_get_contacts.
C24_SortedListOf(S, list, set) ==
    /\ Len(list) = Cardinality(set)
    /\ {list[i] : i \in DOMAIN list} = set
    /\ \A i, j \in DOMAIN list :
           i < j => C19_SortKey(S.contacts[list[i]])
                        <= C19_SortKey(S.contacts[list[j]])

\* C24: roster_get_contacts_by_presence(p) returns exactly the contacts
\* whose presence string equals p and roster_get_contacts_online exactly
\* those whose presence is not "offline", each once and sorted by the key
\* of roster_get_contacts; so roster_get_contacts_online and
\* roster_get_contacts_by_presence("offline") share no contact and together
\* hold every contact of roster_get_contacts exactly once.
C24_PresenceListsPartition ==
    pc = "run" =>
        \A order \in IterOrders(contacts) :
            LET online  == roster_get_contacts_online(St, order)
                offline == roster_get_contacts_by_presence(St, order,
                                                           "offline")
                all     == roster_get_contacts(St, order)
            IN  /\ \A p \in ListPresences :
                       C24_SortedListOf(
                           St, roster_get_contacts_by_presence(St, order, p),
                           C24_ContactsWhere(St, {p}))
                /\ C24_SortedListOf(
                       St, online,
                       C24_ContactsWhere(St, Strings(Availability)))
                /\ Strings(online) \cap Strings(offline) = {}
                /\ Strings(online) \cup Strings(offline) = Strings(all)
                /\ Len(online) + Len(offline) = Len(all)

\* C24 witness: of two contacts, roster_get_contacts_online has just
\* returned the one that is away, and roster_get_contacts lists it after
\* the offline one although its barejid sorts first.
C24_Witness ==
    /\ last.op = "get_contacts_online" /\ pc = "run"
    /\ DOMAIN contacts = {"a@x", "b@x"}
    /\ last.list = <<"a@x">>
    /\ p_contact_presence(contacts["a@x"]) = "away"
    /\ p_contact_presence(contacts["b@x"]) = "offline"
    /\ \A order \in IterOrders(contacts) :
           roster_get_contacts(St, order) = <<"b@x", "a@x">>

C25_BarejidLines(lines) == SelectSeq(lines, LAMBDA l : Len(l) = 2)

\* C25: roster_has_pending_subscriptions returns true exactly when some
\* contact of contacts has its pending-out flag set; cons_show_sent_subs
\* prints the barejids of exactly the contacts with the flag set, in the
\* order of roster_get_contacts, and prints "No pending requests sent."
\* exactly when no contact has the flag set.
C25_SentSubs ==
    pc = "run" =>
        \A order \in IterOrders(contacts) :
            LET flagged == {k \in DOMAIN contacts : contacts[k].pending_out}
                has     == roster_has_pending_subscriptions(St, order)
                o       == cons_show_sent_subs(St, win, order)
                sent    == SelectSeq(roster_get_contacts(St, order),
                                     LAMBDA k : k \in flagged)
            IN  /\ has.ret = "TRUE" <=> flagged /= {}
                /\ o.pc = "run"
                /\ C25_BarejidLines(o.list)
                       = [i \in 1..Len(sent) |->
                             <<"  ", contacts[sent[i]].barejid>>]
                /\ (\E i \in DOMAIN o.list :
                        o.list[i] = <<"No pending requests sent.">>)
                       <=> flagged = {}

\* C25 witness: cons_show_sent_subs has just printed b@x before a@x, both
\* with a request pending, a@x under the name Zed.
C25_Witness ==
    /\ last.op = "cons_show_sent_subs" /\ pc = "run"
    /\ DOMAIN contacts = {"a@x", "b@x"}
    /\ contacts["a@x"].name = "Zed" /\ contacts["b@x"].name = NULL
    /\ last.list = << <<"Awaiting subscription responses from:">>,
                      <<"  ", "b@x">>, <<"  ", "a@x">> >>

\* The console routines of the model that end with cons_alert.
C30_ShowOps ==
    {"cons_alert", "cons_show_sent_subs", "cons_show_roster",
     "cons_show_roster_group"}

\* What cons_alert is to leave of the window state W.
C30_Alerted(W) ==
    [W EXCEPT !.new = IF W.current /= "WIN_CONSOLE" THEN @ \cup {1} ELSE @]

\* C30: cons_alert marks window 1, the console, in the status bar exactly
\* when the current window is not the console, whatever was marked before;
\* cons_show_sent_subs, cons_show_roster and cons_show_roster_group leave
\* the window state cons_alert leaves, so a call of any of them raises the
\* mark when another window is current and leaves the marks as they were
\* when the console is current.
C30_AlertIffNotConsole ==
    /\ [](pc = "run" =>
            \A type \in WindowTypes, marked \in SUBSET {1, 2} :
                LET W == [current |-> type, new |-> marked]
                IN  /\ cons_alert(W) = C30_Alerted(W)
                    /\ (1 \in cons_alert(W).new \ marked)
                           <=> (type /= "WIN_CONSOLE" /\ 1 \notin marked)
                    /\ \A order \in IterOrders(contacts),
                          received \in ReceivedArgs, g \in ListGroups :
                           /\ cons_show_sent_subs(St, W, order).win
                                  = C30_Alerted(W)
                           /\ cons_show_roster(
                                  St, W, roster_get_contacts(St, order),
                                  received).win = C30_Alerted(W)
                           /\ cons_show_roster_group(
                                  St, W, g, roster_get_group(St, order, g),
                                  received).win = C30_Alerted(W))
    /\ [][last'.op \in C30_ShowOps => win' = C30_Alerted(win)]_vars

\* C30 witness: cons_show_roster has just printed two contacts while a chat
\* window was current, and the console is marked.
C30_Witness ==
    /\ last.op = "cons_show_roster" /\ last.prev = "WIN_CHAT"
    /\ pc = "run"
    /\ Len(last.list) = 4
    /\ win.current = "WIN_CHAT" /\ win.new = {1}

\* The cursor of the input line I is inside the window.
C27_Visible(I) == I.col - I.pad_start <= I.wcols - 2

\* The columns a character takes.
C27_Width(ch) == IF g_unichar_iswide(ch) THEN 2 ELSE 1

\* C27: key_printable called with the cursor at the end of the line and a
\* character that wcrtomb converts keeps col - pad_start <= wcols - 2 when
\* it held before the call, col advancing by 1 for a narrow character and
\* by 2 for a wide one and pad_start by as much or not at all; the empty
\* line with col and pad_start 0 satisfies the inequality, so that it holds
\* after any sequence of such calls from an empty line.
C27_AppendKeepsCursorVisible ==
    /\ (inp.line = <<>> /\ inp.col = 0 /\ inp.pad_start = 0) =>
           C27_Visible(inp)
    /\ pc = "run" =>
           \A ch \in KeyChars, ub \in KeyUBOutcomes :
               (/\ inp.line_utf8_pos = Len(inp.line)
                /\ wcrtomb(ch, inp.mb_cur_max) /= -1
                /\ C27_Visible(inp)) =>
                   LET o == key_printable(inp, ch, ub).inp
                   IN  /\ C27_Visible(o)
                       /\ o.col = inp.col + C27_Width(ch)
                       /\ o.pad_start \in {inp.pad_start,
                                           inp.pad_start + C27_Width(ch)}

\* C28: key_printable called with the cursor before the end of the line
\* inserts the character at character position line_utf8_pos, the
\* characters before and after it keeping their order, and sets pad_start
\* from the display length of the new line alone: 0 when it is at most
\* wcols - 2, else the display length - wcols + 1.
C28_InsertSetsPadFromLength ==
    pc = "run" =>
        \A ch \in KeyChars, ub \in KeyUBOutcomes :
            inp.line_utf8_pos < Len(inp.line) =>
                LET o  == key_printable(inp, ch, ub)
                    dl == utf8_display_len(o.inp.line)
                IN  /\ o.pc = "run"
                    /\ o.inp.line
                           = SubSeq(inp.line, 1, inp.line_utf8_pos)
                                 \o <<ch>>
                                 \o SubSeq(inp.line, inp.line_utf8_pos + 1,
                                           Len(inp.line))
                    /\ o.inp.pad_start
                           = IF dl <= inp.wcols - 2 THEN 0
                             ELSE dl - inp.wcols + 1

\* C29: a call of key_printable that changes the line adds exactly one
\* character to it, advances line_utf8_pos by 1 and col by 1 for a narrow
\* character and by 2 for a wide one; a call with the cursor at the end of
\* the line and a character wcrtomb fails on leaves line, line_utf8_pos,
\* col and pad_start as they were.
C29_OneCharacterPerCall ==
    pc = "run" =>
        \A ch \in KeyChars, ub \in KeyUBOutcomes :
            LET o == key_printable(inp, ch, ub).inp
            IN  /\ o.line /= inp.line =>
                       /\ Len(o.line) = Len(inp.line) + 1
                       /\ o.line_utf8_pos = inp.line_utf8_pos + 1
                       /\ o.col = inp.col + C27_Width(ch)
                /\ (/\ inp.line_utf8_pos >= Len(inp.line)
                    /\ wcrtomb(ch, inp.mb_cur_max) = -1) => o = inp

=============================================================================
